---------------------------- MODULE Spec2Model ----------------------------
(***************************************************************************)
(* Model of src/invoice_generator.py: the data pipeline of                 *)
(* InvoiceGenerator.run (lines 597-645) and the methods it calls:          *)
(* get_invoice_data, load_customer_data, load_product_data,                *)
(* prepare_invoice_items, generate_html, generate_pdf, open_pdf.           *)
(*                                                                         *)
(* Python values are tagged records (an int, a str or None); a dict is a   *)
(* function whose DOMAIN is the set of keys present; a data file is a      *)
(* record saying whether the file exists and which records it holds.       *)
(* Amounts are whole numbers (the unit is the smallest shown amount).      *)
(* The text built by generate_html is kept as a sequence of blocks         *)
(* (repeated header, item table) in the order in which they are appended.  *)
(* A text (the template, a substituted value, the document) is a sequence   *)
(* of atoms: the delimiters "{{" and "}}" and chunks of other characters,   *)
(* so that a placeholder is the three atoms "{{", name, "}}".               *)
(***************************************************************************)
EXTENDS Integers, Sequences, FiniteSets, TLC

VARIABLES
    pc,                  \* position in run(): the next step, or how it ended
    suffix,              \* selected_data_file.suffix.lower(): ".csv" | ".json"
    data,                \* records of the selected data file
    selected_invoice_id, \* the invoice id handed to get_invoice_data
    customer_csv,        \* data/customer.csv
    customer_json,       \* data/customer.json
    product_csv,         \* data/product.csv
    product_json,        \* data/product.json
    invoice_data,        \* result of get_invoice_data
    customer_data,       \* result of load_customer_data
    items,               \* result of prepare_invoice_items
    html_template,       \* text of the selected template file
    html_content,        \* result of generate_html
    report,              \* the message printed when the run ends early
    render_calls,        \* number of calls of generate_pdf
    pdf_written          \* whether output/invoice_<id>.pdf was written

vars == <<pc, html_template, suffix, data, selected_invoice_id, customer_csv, customer_json,
          product_csv, product_json, invoice_data, customer_data, items,
          html_content, report, render_calls, pdf_written>>

-----------------------------------------------------------------------------
(* Bounds of the explored inputs *)

MaxRows == 2        \* flat data files: every sequence of sample rows up to this length
MaxRecs == 2        \* nested data files: every sequence of sample invoices up to this length
MaxItems == 21      \* longest generated invoice (raw line items)

(* Program constant *)
items_per_page == 10

-----------------------------------------------------------------------------
(* Python values *)

IntV(n) == [tag |-> "int", n |-> n, s |-> ""]
StrV(s) == [tag |-> "str", n |-> 0, s |-> s]
NoneV == [tag |-> "none", n |-> 0, s |-> ""]

\* str(v)
Str(v) ==
    CASE v.tag = "str" -> v.s
      [] v.tag = "int" -> ToString(v.n)
      [] OTHER -> "None"

\* bool(v) for a scalar: None, 0 and '' are falsy
Truthy(v) ==
    CASE v.tag = "str" -> v.s # ""
      [] v.tag = "int" -> v.n # 0
      [] OTHER -> FALSE

\* the decimal literals that int() and float() accept among the strings used
Numeral == ("0" :> 0) @@ ("1" :> 1) @@ ("2" :> 2) @@ ("3" :> 3) @@ ("5" :> 5) @@ ("10" :> 10)

\* int(v) / float(v): the number, or an exception (ValueError for a
\* non-numeric string, TypeError for None)
ToNumber(v) ==
    CASE v.tag = "int" -> [raised |-> FALSE, n |-> v.n]
      [] v.tag = "str" /\ v.s \in DOMAIN Numeral -> [raised |-> FALSE, n |-> Numeral[v.s]]
      [] OTHER -> [raised |-> TRUE, n |-> 0]

\* d.get(key) and d.get(key, default)
GetOr(d, key, default) == IF key \in DOMAIN d THEN d[key] ELSE default
Get(d, key) == GetOr(d, key, NoneV)

\* a file that does not exist, a file holding the records recs
NoFile == [exists |-> FALSE, recs |-> <<>>]
File(recs) == [exists |-> TRUE, recs |-> recs]

\* Optional[Dict]: None, or a record
NotFound == [found |-> FALSE, rec |-> <<>>]
Found(rec) == [found |-> TRUE, rec |-> rec]

\* bool(x) for an Optional[Dict]: None and {} are falsy
TruthyRec(x) == x.found /\ DOMAIN x.rec # {}

Min(a, b) == IF a < b THEN a ELSE b


-----------------------------------------------------------------------------
(* Sample inputs.  Identifiers occur as ints and as strs, so that the      *)
(* comparison by str() is exercised; fields are absent in some records.    *)

\* rows of a flat (CSV) invoice file
Row(inv, extra) == ("invoice_id" :> inv) @@ extra
SampleRows ==
    { Row(IntV(1), ("customer_id" :> IntV(9)) @@ ("date" :> StrV("2024-01-01"))
                   @@ ("product_id" :> StrV("A")) @@ ("quantity" :> IntV(2))),
      Row(StrV("1"), ("customer_id" :> IntV(8)) @@ ("date" :> StrV("2024-02-02"))
                   @@ ("product_id" :> StrV("B"))),
      Row(IntV(1), ("product_id" :> StrV("Z")) @@ ("quantity" :> StrV("abc"))),
      Row(IntV(1), ("customer_id" :> StrV("")) @@ ("date" :> NoneV)
                   @@ ("product_id" :> StrV("Z")) @@ ("quantity" :> IntV(1))),
      Row(IntV(2), ("customer_id" :> IntV(9)) @@ ("date" :> StrV("2024-03-03"))
                   @@ ("product_id" :> IntV(5)) @@ ("quantity" :> StrV("3"))) }

\* raw line items of a nested (JSON) invoice
SampleItems ==
    { <<>>,
      << ("product_id" :> StrV("A")) @@ ("quantity" :> IntV(2)),
         ("product_id" :> StrV("Z")) @@ ("quantity" :> IntV(1)),
         ("product_id" :> StrV("B")) >>,
      << ("product_id" :> StrV("Z")) @@ ("quantity" :> StrV("abc")) >>,
      << ("product_id" :> StrV("5")) @@ ("quantity" :> NoneV),
         ("product_id" :> StrV("A")) @@ ("quantity" :> IntV(1)) >> }

\* the i-th line of a long invoice: two products in turn, quantities 1..3
LongItem(i) ==
    ("product_id" :> (IF i % 2 = 1 THEN StrV("A") ELSE StrV("B")))
    @@ ("quantity" :> IntV((i % 3) + 1))
LongItems(n) == [i \in 1..n |-> LongItem(i)]
LongRows(n) ==
    [i \in 1..n |-> Row(IntV(1), ("customer_id" :> IntV(9))
                                  @@ ("date" :> StrV("2024-01-01")) @@ LongItem(i))]

\* records of a nested (JSON) invoice file
SampleInvoices ==
    { ("invoice_id" :> IntV(1)) @@ ("customer_id" :> IntV(9))
         @@ ("date" :> StrV("2024-01-01")) @@ ("items" :> its) : its \in SampleItems \ {<<>>} }
    \cup
    { ("invoice_id" :> StrV("2")) @@ ("customer_id" :> StrV("8")) @@ ("items" :> <<>>),
      ("invoice_id" :> IntV(2)) @@ ("customer_id" :> IntV(9)) @@ ("date" :> StrV("2024-03-03")) }

\* all sequences over S of length at most n
SeqsUpTo(S, n) == UNION { [1..k -> S] : k \in 0..n }

FlatFiles == SeqsUpTo(SampleRows, MaxRows) \cup { LongRows(n) : n \in 3..MaxItems }
NestedFiles ==
    SeqsUpTo(SampleInvoices, MaxRecs)
    \cup { << ("invoice_id" :> IntV(1)) @@ ("customer_id" :> IntV(9))
              @@ ("date" :> StrV("2024-01-01")) @@ ("items" :> LongItems(n)) >> : n \in 3..MaxItems }

\* invoice ids asked for: present as an int, present as a str, absent
TargetIds == { IntV(1), StrV("2"), IntV(3) }

Customer(id, name, rest) == ("customer_id" :> id) @@ ("name" :> name) @@ rest
Contact(tag) == ("email" :> StrV(tag)) @@ ("phone" :> StrV("555")) @@ ("address" :> StrV("Main St"))
CustomerCsvFiles ==
    { NoFile,
      File(<< Customer(IntV(8), StrV("Bob-csv"), Contact("b@csv")),
              Customer(IntV(9), StrV("Ann-csv"), Contact("a@csv")),
              Customer(IntV(9), StrV("Ann-csv-2"), Contact("a2@csv")) >>),
      File(<< Customer(IntV(7), StrV("Cy-csv"), Contact("c@csv")) >>) }
CustomerJsonFiles ==
    { NoFile,
      File(<< Customer(StrV("9"), StrV("Ann-json"), Contact("a@json")) >>),
      File(<< Customer(IntV(9), NoneV, ("email" :> StrV("a@json"))),
              Customer(IntV(8), StrV("Bob-json"), ("phone" :> IntV(555))) >>) }

Product(id, rest) == ("product_id" :> id) @@ rest
ProductCsvFiles ==
    { NoFile,
      File(<< Product(StrV("A"), ("name" :> StrV("Apple-csv")) @@ ("price" :> IntV(10))),
              Product(StrV("A"), ("name" :> StrV("Apple-csv-2")) @@ ("price" :> IntV(3))),
              Product(IntV(5), ("name" :> StrV("Five-csv")) @@ ("price" :> StrV("5"))) >>),
      File(<< Product(StrV("B"), ("name" :> StrV("Pear-csv")) @@ ("price" :> IntV(2))),
              Product(StrV("A"), ("name" :> StrV("Apple-csv")) @@ ("price" :> IntV(10))) >>) }
ProductJsonFiles ==
    { NoFile,
      File(<< Product(StrV("A"), ("name" :> StrV("Apple-json")) @@ ("price" :> IntV(1))),
              Product(StrV("B"), ("price" :> IntV(5))) >>),
      File(<< Product(StrV("B"), ("name" :> StrV("Pear-json"))),
              Product(StrV("B"), ("name" :> StrV("Pear-json-2")) @@ ("price" :> IntV(3))) >>) }

-----------------------------------------------------------------------------
(* get_invoice_ids, lines 145-169: the ids offered by the menu of run() *)

get_invoice_ids(recs) ==
    { recs[i]["invoice_id"] : i \in { j \in 1..Len(recs) : "invoice_id" \in DOMAIN recs[j] } }

-----------------------------------------------------------------------------
(* get_invoice_data, lines 171-208 *)

\* lines 190 and 205: the record belongs to the invoice
SameInvoice(rec, invoice_id) == Str(Get(rec, "invoice_id")) = Str(invoice_id)

\* a slip: the field is assigned by every matching row (the last one wins)
KeepOrTake_last(current, row, key) == Get(row, key)

\* lines 192-195: a header field is assigned while it is still None
KeepOrTake(current, row, key) == IF current = NoneV THEN Get(row, key) ELSE current

\* lines 189-195: one iteration of the loop over the rows
FlatStep(acc, row, invoice_id) ==
    IF SameInvoice(row, invoice_id)
    THEN [invoice_items |-> Append(acc.invoice_items, row),
          invoice_date  |-> KeepOrTake(acc.invoice_date, row, "date"),
          customer_id   |-> KeepOrTake(acc.customer_id, row, "customer_id")]
    ELSE acc

RECURSIVE FlatScan(_, _, _, _)
FlatScan(recs, i, acc, invoice_id) ==
    IF i > Len(recs) THEN acc
    ELSE FlatScan(recs, i + 1, FlatStep(acc, recs[i], invoice_id), invoice_id)

\* lines 183-202: the flat branch always returns
FlatInvoice(recs, invoice_id) ==
    LET acc == FlatScan(recs, 1,
                   [invoice_items |-> <<>>, invoice_date |-> NoneV, customer_id |-> NoneV],
                   invoice_id)
    IN [raised |-> FALSE,
        value  |-> ("invoice_id" :> invoice_id) @@ ("customer_id" :> acc.customer_id)
                   @@ ("date" :> acc.invoice_date) @@ ("items" :> acc.invoice_items)]

\* lines 203-208: the first matching record, or ValueError
RECURSIVE NestedScan(_, _, _)
NestedScan(recs, i, invoice_id) ==
    IF i > Len(recs) THEN [raised |-> TRUE, value |-> <<>>]
    ELSE IF SameInvoice(recs[i], invoice_id) THEN [raised |-> FALSE, value |-> recs[i]]
    ELSE NestedScan(recs, i + 1, invoice_id)

get_invoice_data(recs, invoice_id, sfx) ==
    IF sfx = ".csv" THEN FlatInvoice(recs, invoice_id)
    ELSE NestedScan(recs, 1, invoice_id)

-----------------------------------------------------------------------------
(* load_customer_data, lines 210-236, and load_product_data, lines 238-264 *)

\* lines 224-226, 232-234, 252-254, 260-262: the first record of the file
\* whose key field stringifies equal to the id
RECURSIVE FirstMatch(_, _, _, _)
FirstMatch(recs, i, key, id) ==
    IF i > Len(recs) THEN NotFound
    ELSE IF Str(Get(recs[i], key)) = Str(id) THEN Found(recs[i])
    ELSE FirstMatch(recs, i + 1, key, id)

\* a file is scanned only if it exists
ScanFile(file, key, id) ==
    IF file.exists THEN FirstMatch(file.recs, 1, key, id) ELSE NotFound

\* a slip: the JSON file is tried before the CSV file
Lookup_json_first(csv, json, key, id) ==
    LET fromJson == ScanFile(json, key, id)
    IN IF fromJson.found THEN fromJson ELSE ScanFile(csv, key, id)

\* the CSV file first, then the JSON file, then None
Lookup(csv, json, key, id) ==
    LET fromCsv == ScanFile(csv, key, id)
    IN IF fromCsv.found THEN fromCsv ELSE ScanFile(json, key, id)

load_customer_data(csv, json, customer_id) == Lookup(csv, json, "customer_id", customer_id)

load_product_data(csv, json, product_id) == Lookup(csv, json, "product_id", product_id)

-----------------------------------------------------------------------------
(* prepare_invoice_items, lines 266-317 *)

UnknownProductName == StrV("Neizvestnyj tovar")

\* lines 283 and 302: int(item.get('quantity', 1))
ParseQuantity(item) == ToNumber(GetOr(item, "quantity", IntV(1)))

\* lines 287 and 306: float(product.get('price', 0))
ParsePrice(product) == ToNumber(GetOr(product, "price", IntV(0)))

\* lines 290-296 and 309-315
Enriched(item, product, quantity, price) ==
    [product_id |-> Get(item, "product_id"),
     name       |-> GetOr(product, "name", UnknownProductName),
     quantity   |-> quantity,
     price      |-> price,
     total      |-> price * quantity]

\* lines 281-296 and 300-315: the loop; an exception of int() or float()
\* leaves the method at once
RECURSIVE EnrichFrom(_, _, _, _, _)
EnrichFrom(raw, i, out, csv, json) ==
    IF i > Len(raw) THEN [raised |-> FALSE, value |-> out]
    ELSE
      LET item     == raw[i]
          quantity == ParseQuantity(item)
          product  == load_product_data(csv, json, Get(item, "product_id"))
          price    == ParsePrice(product.rec)
      IN IF quantity.raised THEN [raised |-> TRUE, value |-> <<>>]
         ELSE IF ~TruthyRec(product) THEN EnrichFrom(raw, i + 1, out, csv, json)
         ELSE IF price.raised THEN [raised |-> TRUE, value |-> <<>>]
         ELSE EnrichFrom(raw, i + 1,
                         Append(out, Enriched(item, product.rec, quantity.n, price.n)),
                         csv, json)

\* line 281: invoice_data['items']; line 299: invoice_data.get('items', [])
RawItems(inv, sfx) ==
    IF sfx = ".csv" THEN inv["items"] ELSE GetOr(inv, "items", <<>>)

prepare_invoice_items(inv, sfx, csv, json) == EnrichFrom(RawItems(inv, sfx), 1, <<>>, csv, json)

-----------------------------------------------------------------------------
(* generate_html, lines 319-423 *)

CustomerFields == <<"name", "email", "phone", "address">>

\* lines 343-346: str.replace(old, new) raises TypeError unless new is a str
ReplaceAccepts(v) == v.tag = "str"

\* line 349: sum(item['total'] for item in items)
RECURSIVE SumTotals(_, _)
SumTotals(its, i) == IF i > Len(its) THEN 0 ELSE its[i].total + SumTotals(its, i + 1)

\* a slip: the sum is taken over the first page only
total_amount_first_page(its) ==
    SumTotals(SubSeq(its, 1, Min(items_per_page, Len(its))), 1)

total_amount(its) == SumTotals(its, 1)

\* a slip: the slice stops one item early
page_items_short(its, page_num) ==
    SubSeq(its, page_num + 1, Min(page_num + items_per_page - 1, Len(its)))

\* line 356: items[page_num:page_num + items_per_page]
page_items(its, page_num) ==
    SubSeq(its, page_num + 1, Min(page_num + items_per_page, Len(its)))

\* a slip: the second page is taken for a first page too
is_first_page_wide(page_num) == page_num <= items_per_page

\* line 357
is_first_page(page_num) == page_num = 0

\* a slip: the numbering restarts on every page
global_idx_local(page_num, idx) == idx

\* line 388
global_idx(page_num, idx) == page_num + idx

\* lines 361-383: the page break and the repeated invoice/customer header
HeaderRepeat(inv, cust) ==
    [kind       |-> "header-repeat",
     invoice_id |-> Str(GetOr(inv, "invoice_id", StrV(""))),
     date       |-> Str(GetOr(inv, "date", StrV(""))),
     customer   |-> [i \in 1..Len(CustomerFields) |->
                        Str(GetOr(cust, CustomerFields[i], StrV("")))]]

\* lines 386-397: the rows of one page
items_rows(its, page_num) ==
    LET page == page_items(its, page_num)
    IN [idx \in 1..Len(page) |->
          [no       |-> global_idx(page_num, idx),
           name     |-> page[idx].name,
           quantity |-> page[idx].quantity,
           price    |-> page[idx].price,
           total    |-> page[idx].total]]

\* lines 400-417
Table(its, page_num) == [kind |-> "table", rows |-> items_rows(its, page_num)]

\* lines 355-417: for page_num in range(0, len(items), items_per_page)
RECURSIVE tables_html(_, _, _, _)
tables_html(inv, cust, its, page_num) ==
    IF page_num >= Len(its) THEN <<>>
    ELSE (IF ~is_first_page(page_num) THEN <<HeaderRepeat(inv, cust)>> ELSE <<>>)
         \o <<Table(its, page_num)>>
         \o tables_html(inv, cust, its, page_num + items_per_page)

\* the text of a placeholder
Token(name) == <<"{{", name, "}}">>

\* the sample strings that hold a placeholder, as atoms
Lexed ==
    ("{{tables}}" :> Token("tables")) @@ ("{{total_amount}}" :> Token("total_amount"))
    @@ ("{{customer_name}}" :> Token("customer_name"))

\* a str as atoms
Text(s) == IF s = "" THEN <<>> ELSE IF s \in DOMAIN Lexed THEN Lexed[s] ELSE <<s>>

\* str.replace(old, new): the next occurrence of old is looked for from
\* the current position; the text before it is copied, new is put in its
\* place, and the search goes on after it
RECURSIVE ReplaceFrom(_, _, _, _)
ReplaceFrom(s, i, old, new) ==
    LET found == { m \in i..(Len(s) - Len(old) + 1) : SubSeq(s, m, m + Len(old) - 1) = old }
    IN IF found = {} THEN SubSeq(s, i, Len(s))
       ELSE LET m == CHOOSE x \in found : \A y \in found : x <= y
            IN SubSeq(s, i, m - 1) \o new \o ReplaceFrom(s, m + Len(old), old, new)

Replace(s, old, new) == ReplaceFrom(s, 1, old, new)

\* lines 389-397: the text of one row
RowText(row) ==
    <<"<tr>", ToString(row.no)>> \o Text(Str(row.name))
    \o <<ToString(<<row.quantity, row.price, row.total>>)>>

RECURSIVE RowsText(_, _)
RowsText(rows, i) ==
    IF i > Len(rows) THEN <<>> ELSE RowText(rows[i]) \o RowsText(rows, i + 1)

\* lines 363-383 and 400-417: the text of one block of tables_html
BlockText(b) ==
    IF b.kind = "header-repeat"
    THEN <<"<page-break>", "<header-repeat>">> \o Text(b.invoice_id) \o Text(b.date)
         \o Text(b.customer[1]) \o Text(b.customer[2])
         \o Text(b.customer[3]) \o Text(b.customer[4])
    ELSE <<"<table>">> \o RowsText(b.rows, 1) \o <<"</table>">>

RECURSIVE BlocksText(_, _)
BlocksText(blocks, i) ==
    IF i > Len(blocks) THEN <<>> ELSE BlockText(blocks[i]) \o BlocksText(blocks, i + 1)

\* lines 339-346 and 420-421: the placeholders in the order in which they
\* are replaced, each with the text put in its place
Substitutions(inv, cust, its) ==
    << <<"invoice_id", Text(Str(GetOr(inv, "invoice_id", StrV(""))))>>,
       <<"invoice_date", Text(Str(GetOr(inv, "date", StrV(""))))>>,
       <<"customer_name", Text(GetOr(cust, "name", StrV("")).s)>>,
       <<"customer_email", Text(GetOr(cust, "email", StrV("")).s)>>,
       <<"customer_phone", Text(GetOr(cust, "phone", StrV("")).s)>>,
       <<"customer_address", Text(GetOr(cust, "address", StrV("")).s)>>,
       <<"tables", BlocksText(tables_html(inv, cust, its, 0), 1)>>,
       <<"total_amount", <<ToString(total_amount(its))>> >> >>

\* html = html.replace(...), one placeholder after the other
RECURSIVE ReplaceAll(_, _, _)
ReplaceAll(html, subs, k) ==
    IF k > Len(subs) THEN html
    ELSE ReplaceAll(Replace(html, Token(subs[k][1]), subs[k][2]), subs, k + 1)

NoHtml ==
    [raised |-> FALSE, fields |-> <<>>, tables |-> <<>>, total_amount |-> 0, html |-> <<>>]

\* the values substituted for the eight placeholders
generate_html(template, inv, cust, its) ==
    IF \E i \in 1..Len(CustomerFields) :
          ~ReplaceAccepts(GetOr(cust, CustomerFields[i], StrV("")))
    THEN [NoHtml EXCEPT !.raised = TRUE]
    ELSE [raised       |-> FALSE,
          fields       |-> <<Str(GetOr(inv, "invoice_id", StrV(""))),
                             Str(GetOr(inv, "date", StrV("")))>>
                           \o [i \in 1..Len(CustomerFields) |->
                                  GetOr(cust, CustomerFields[i], StrV("")).s],
          tables       |-> tables_html(inv, cust, its, 0),
          total_amount |-> total_amount(its),
          html         |-> ReplaceAll(template, Substitutions(inv, cust, its), 1)]

-----------------------------------------------------------------------------
(* run, lines 597-645 *)

\* a template with each of the eight placeholders once
StandardTemplate ==
    <<"<h1>">> \o Token("invoice_id") \o <<"<date>">> \o Token("invoice_date")
    \o <<"<customer>">> \o Token("customer_name") \o Token("customer_email")
    \o Token("customer_phone") \o Token("customer_address")
    \o Token("tables") \o <<"<total>">> \o Token("total_amount") \o <<"</html>">>

Init ==
    /\ pc = "get_invoice_data"
    /\ html_template = StandardTemplate
    /\ \E sfx \in {".csv", ".json"} :
          /\ suffix = sfx
          /\ data \in (IF sfx = ".csv" THEN FlatFiles ELSE NestedFiles)
    /\ selected_invoice_id \in TargetIds
    /\ customer_csv \in CustomerCsvFiles
    /\ customer_json \in CustomerJsonFiles
    /\ product_csv \in ProductCsvFiles
    /\ product_json \in ProductJsonFiles
    /\ invoice_data = <<>>
    /\ customer_data = NotFound
    /\ items = <<>>
    /\ html_content = NoHtml
    /\ report = ""
    /\ render_calls = 0
    /\ pdf_written = FALSE

\* a slip: an empty item list is let through
NoItems_never(its) == FALSE

\* line 617: not items
NoItems(its) == its = <<>>

Stop(message) == pc' = "error" /\ report' = message

\* lines 597-602
GetInvoiceData ==
    /\ pc = "get_invoice_data"
    /\ LET r == get_invoice_data(data, selected_invoice_id, suffix)
       IN IF r.raised
          THEN Stop("invoice data") /\ UNCHANGED invoice_data
          ELSE pc' = "load_customer_data" /\ invoice_data' = r.value /\ UNCHANGED report
    /\ UNCHANGED <<html_template, suffix, data, selected_invoice_id, customer_csv, customer_json,
                   product_csv, product_json, customer_data, items, html_content,
                   render_calls, pdf_written>>

\* lines 604-613
LoadCustomerData ==
    /\ pc = "load_customer_data"
    /\ LET customer_id == Get(invoice_data, "customer_id")
           found == load_customer_data(customer_csv, customer_json, customer_id)
       IN IF ~Truthy(customer_id)
          THEN Stop("no customer_id") /\ UNCHANGED customer_data
          ELSE IF ~TruthyRec(found)
          THEN Stop("customer not found") /\ customer_data' = found
          ELSE pc' = "prepare_invoice_items" /\ customer_data' = found /\ UNCHANGED report
    /\ UNCHANGED <<html_template, suffix, data, selected_invoice_id, customer_csv, customer_json,
                   product_csv, product_json, invoice_data, items, html_content,
                   render_calls, pdf_written>>

\* lines 615-619; an exception raised here is caught by nobody
PrepareInvoiceItems ==
    /\ pc = "prepare_invoice_items"
    /\ LET r == prepare_invoice_items(invoice_data, suffix, product_csv, product_json)
       IN IF r.raised
          THEN pc' = "crash" /\ UNCHANGED <<items, report>>
          ELSE IF NoItems(r.value)
          THEN Stop("no items") /\ items' = r.value
          ELSE pc' = "generate_html" /\ items' = r.value /\ UNCHANGED report
    /\ UNCHANGED <<html_template, suffix, data, selected_invoice_id, customer_csv, customer_json,
                   product_csv, product_json, invoice_data, customer_data, html_content,
                   render_calls, pdf_written>>

\* lines 621-626
GenerateHtml ==
    /\ pc = "generate_html"
    /\ LET r == generate_html(html_template, invoice_data, customer_data.rec, items)
       IN IF r.raised
          THEN Stop("html") /\ UNCHANGED html_content
          ELSE pc' = "generate_pdf" /\ html_content' = r /\ UNCHANGED report
    /\ UNCHANGED <<html_template, suffix, data, selected_invoice_id, customer_csv, customer_json,
                   product_csv, product_json, invoice_data, customer_data, items,
                   render_calls, pdf_written>>

\* lines 628-637: the renderer writes the file or raises
GeneratePdf ==
    /\ pc = "generate_pdf"
    /\ render_calls' = render_calls + 1
    /\ \E written \in BOOLEAN :
          /\ pdf_written' = written
          /\ IF written THEN pc' = "open_pdf" /\ UNCHANGED report ELSE Stop("pdf")
    /\ UNCHANGED <<html_template, suffix, data, selected_invoice_id, customer_csv, customer_json,
                   product_csv, product_json, invoice_data, customer_data, items,
                   html_content>>

\* lines 639-645: a viewer that fails to start is reported, the file stays
OpenPdf ==
    /\ pc = "open_pdf"
    /\ pc' = "done"
    /\ \E opened \in BOOLEAN : report' = (IF opened THEN "" ELSE "viewer")
    /\ UNCHANGED <<html_template, suffix, data, selected_invoice_id, customer_csv, customer_json,
                   product_csv, product_json, invoice_data, customer_data, items,
                   html_content, render_calls, pdf_written>>

Next ==
    \/ GetInvoiceData
    \/ LoadCustomerData
    \/ PrepareInvoiceItems
    \/ GenerateHtml
    \/ GeneratePdf
    \/ OpenPdf

Spec == Init /\ [][Next]_vars

-----------------------------------------------------------------------------
(* generate_html called on its own: any list of enriched items, the empty  *)
(* one included, with a header and a customer record.                      *)

ComposeItem(i, v) ==
    [product_id |-> StrV("A"),
     name       |-> StrV(ToString(i)),
     quantity   |-> (i % 3) + 1,
     price      |-> v + (i % 2),
     total      |-> (v + (i % 2)) * ((i % 3) + 1)]

ComposeItems == { [i \in 1..n |-> ComposeItem(i, v)] : n \in 0..MaxItems, v \in 1..2 }

ComposeHeaders ==
    { ("invoice_id" :> IntV(1)) @@ ("customer_id" :> IntV(9)) @@ ("date" :> StrV("2024-01-01")),
      ("invoice_id" :> StrV("{{tables}}")) @@ ("customer_id" :> IntV(9)) @@ ("date" :> StrV("2024-01-01")),
      ("invoice_id" :> StrV("2")) @@ ("customer_id" :> IntV(9)) }

ComposeCustomers ==
    { Customer(IntV(9), StrV("Ann"), Contact("a@x")),
      Customer(IntV(9), StrV("Ann"), ("email" :> StrV("a@x"))),
      Customer(IntV(9), NoneV, Contact("a@x")),
      Customer(IntV(9), StrV("{{total_amount}}"), ("email" :> NoneV) @@ ("phone" :> StrV("555"))),
      Customer(IntV(9), StrV("{{total_amount}}"), ("phone" :> StrV("555"))) }

\* templates: the standard one; one with an unknown placeholder, a
\* placeholder used twice and no tables; one with a placeholder inside braces
SampleTemplates ==
    { StandardTemplate,
      Token("unknown") \o Token("customer_name") \o <<"{{", "tables">>
        \o Token("customer_name") \o <<"<total>">> \o Token("total_amount"),
      <<"{{">> \o Token("invoice_id") \o <<"}}", "<body>">> \o Token("tables") }

InitCompose ==
    /\ pc = "generate_html"
    /\ html_template \in SampleTemplates
    /\ suffix = ".json"
    /\ data = <<>>
    /\ selected_invoice_id = IntV(1)
    /\ customer_csv = NoFile
    /\ customer_json = NoFile
    /\ product_csv = NoFile
    /\ product_json = NoFile
    /\ invoice_data \in ComposeHeaders
    /\ customer_data \in { Found(c) : c \in ComposeCustomers }
    /\ items \in ComposeItems
    /\ html_content = NoHtml
    /\ report = ""
    /\ render_calls = 0
    /\ pdf_written = FALSE

NextCompose ==
    \/ GenerateHtml
    \/ GeneratePdf
    \/ OpenPdf

SpecCompose == InitCompose /\ [][NextCompose]_vars

-----------------------------------------------------------------------------
(* Vocabulary of the properties *)

\* generate_html has returned its document
Composed ==
    \/ pc \in {"generate_pdf", "open_pdf", "done"}
    \/ pc = "error" /\ report = "pdf"

\* prepare_invoice_items has returned its list
PrepareReturned ==
    \/ pc \in {"generate_html", "generate_pdf", "open_pdf", "done"}
    \/ pc = "error" /\ report \in {"no items", "html", "pdf"}

\* load_customer_data has returned
CustomerLooked ==
    \/ PrepareReturned
    \/ pc \in {"prepare_invoice_items", "crash"}
    \/ pc = "error" /\ report = "customer not found"

\* get_invoice_data has returned an invoice
InvoiceReturned == pc # "get_invoice_data" /\ ~(pc = "error" /\ report = "invoice data")

\* the item tables of the document, in order
Pages == SelectSeq(html_content.tables, LAMBDA b : b.kind = "table")

RECURSIVE RowsFrom(_, _)
RowsFrom(tables, k) ==
    IF k > Len(tables) THEN <<>> ELSE tables[k].rows \o RowsFrom(tables, k + 1)

\* the rows of all pages, read in order
AllRows == RowsFrom(Pages, 1)

\* what a row shows of an item
Shown(x) == [name |-> x.name, quantity |-> x.quantity, price |-> x.price, total |-> x.total]

RECURSIVE SeqSum(_)
SeqSum(ns) == IF ns = <<>> THEN 0 ELSE Head(ns) + SeqSum(Tail(ns))

MinOf(S) == CHOOSE m \in S : \A x \in S : m <= x

\* positions of the records whose key field stringifies equal to the id
MatchIdx(recs, key, id) ==
    { i \in 1..Len(recs) :
        (IF key \in DOMAIN recs[i] THEN Str(recs[i][key]) ELSE "None") = Str(id) }

\* the record the priority rule designates: the first match of the flat
\* source, else the first match of the structured source, else none
Designated(csv, json, key, id) ==
    IF csv.exists /\ MatchIdx(csv.recs, key, id) # {}
    THEN Found(csv.recs[MinOf(MatchIdx(csv.recs, key, id))])
    ELSE IF json.exists /\ MatchIdx(json.recs, key, id) # {}
    THEN Found(json.recs[MinOf(MatchIdx(json.recs, key, id))])
    ELSE NotFound

DesignatedProduct(item) ==
    Designated(product_csv, product_json, "product_id", Get(item, "product_id"))

\* the raw line items of the assembled invoice
Raw == RawItems(invoice_data, suffix)

-----------------------------------------------------------------------------
(* Pager and composer *)

\* C1: a composed document of n items has ceil(n/10) item tables; table k
\* (counted from 0) shows exactly the items at positions [10k, min(10(k+1), n))
\* in their order, so every table has 1..10 rows and no items give no table.
C1_Pagination ==
    Composed =>
      LET n == Len(items)
          P == Pages
      IN /\ Len(P) = (n + 9) \div 10
         /\ n = 0 => html_content.tables = <<>>
         /\ \A k \in 0..(Len(P) - 1) :
              LET lo == 10 * k
                  hi == Min(10 * (k + 1), n)
                  rows == P[k + 1].rows
              IN /\ Len(rows) = hi - lo
                 /\ Len(rows) \in 1..10
                 /\ \A j \in 1..(hi - lo) : Shown(rows[j]) = Shown(items[lo + j])

\* C1 witness: 21 items were composed into three tables, the last of one row
C1_Witness ==
    /\ Composed
    /\ Len(items) = 21
    /\ Len(Pages) = 3
    /\ Len(Pages[3].rows) = 1

\* C2: the blocks of the tables placeholder alternate table, header, table,
\* ...: the first block is the first page's table, and each later page's
\* table comes directly after exactly one repeated header.
C2_HeaderRepeat ==
    Composed =>
      LET T == html_content.tables
          pages == (Len(items) + 9) \div 10
      IN /\ Len(T) = (IF pages = 0 THEN 0 ELSE 2 * pages - 1)
         /\ \A b \in 1..Len(T) :
              T[b].kind = (IF b % 2 = 1 THEN "table" ELSE "header-repeat")
         /\ \A k \in 1..pages :
              2 * k - 1 <= Len(T) =>
                /\ T[2 * k - 1].kind = "table"
                /\ Len(T[2 * k - 1].rows) = Min(10 * k, Len(items)) - 10 * (k - 1)

\* C2 witness: a document of three pages, with a header before pages 2 and 3
C2_Witness ==
    /\ Composed
    /\ Len(html_content.tables) = 5
    /\ html_content.tables[1].kind = "table"
    /\ html_content.tables[2].kind = "header-repeat"
    /\ html_content.tables[4].kind = "header-repeat"

\* C3: read across all pages, the rows are numbered 1, 2, ..., n and row i
\* shows the i-th enriched item.
C3_GlobalNumbering ==
    Composed =>
      /\ Len(AllRows) = Len(items)
      /\ \A i \in 1..Len(AllRows) :
           /\ AllRows[i].no = i
           /\ Shown(AllRows[i]) = Shown(items[i])

\* C3 witness: the eleventh item is the first row of the second page, numbered 11
C3_Witness ==
    /\ Composed
    /\ Len(Pages) >= 2
    /\ Pages[2].rows[1].no = 11
    /\ Shown(Pages[2].rows[1]) = Shown(items[11])

\* C4: the total substituted for total_amount is the sum of price x quantity
\* over the raw items whose product resolves (the others contribute nothing),
\* which is the sum of the totals of the enriched items and the sum of the
\* totals shown on all pages.
C4_GrandTotal ==
    Composed =>
      /\ html_content.total_amount =
           SeqSum([i \in 1..Len(items) |-> items[i].price * items[i].quantity])
      /\ html_content.total_amount =
           SeqSum([i \in 1..Len(AllRows) |-> AllRows[i].total])
      /\ html_content.total_amount =
           SeqSum([i \in 1..Len(Raw) |->
                     IF DesignatedProduct(Raw[i]).found
                     THEN ParsePrice(DesignatedProduct(Raw[i]).rec).n * ParseQuantity(Raw[i]).n
                     ELSE 0])

\* C4 witness: an invoice of more than one page from which an item was dropped
C4_Witness ==
    /\ Composed
    /\ Len(Pages) >= 2
    /\ Len(items) < Len(Raw)
    /\ html_content.total_amount > 0

-----------------------------------------------------------------------------
(* Enrichment and resolution *)

\* the raw items whose product the priority rule finds
Resolving == SelectSeq(Raw, LAMBDA it : DesignatedProduct(it).found)

\* the enriched list the raw items stand for: one item per resolving raw
\* item, in order, with line total = unit price x quantity
ExpectedItems ==
    [i \in 1..Len(Resolving) |->
       LET product  == DesignatedProduct(Resolving[i]).rec
           quantity == ParseQuantity(Resolving[i]).n
           price    == ParsePrice(product).n
       IN [product_id |-> Get(Resolving[i], "product_id"),
           name       |-> GetOr(product, "name", UnknownProductName),
           quantity   |-> quantity,
           price      |-> price,
           total      |-> price * quantity]]

\* prepare_invoice_items was called
PrepareCalled == PrepareReturned \/ pc = "crash"

\* C5: prepare_invoice_items raises no error and returns exactly the
\* resolving raw items, in order, each with line total = unit price x
\* quantity; the other raw items are dropped.
C5_EnrichDropsUnresolved ==
    PrepareCalled =>
      /\ pc # "crash"
      /\ items = ExpectedItems

\* what holds of the code for C5: whenever prepare_invoice_items returns,
\* it returns the resolving raw items in order
C5_WhenReturned == PrepareReturned => items = ExpectedItems

\* C6: a lookup returns the first matching record of the CSV source if that
\* source exists and has a match, otherwise the first matching record of the
\* JSON source, otherwise None (no exception): the customer found is the
\* designated one, and the enriched items are exactly the raw items with a
\* designated product, carrying its name and price.
C6_ResolutionPriority ==
    /\ CustomerLooked =>
         /\ customer_data = Designated(customer_csv, customer_json, "customer_id",
                                       Get(invoice_data, "customer_id"))
         /\ ~customer_data.found => pc = "error" /\ report = "customer not found"
    /\ PrepareReturned =>
         /\ Len(items) = Len(Resolving)
         /\ \A i \in 1..Len(items) :
              LET d == Designated(product_csv, product_json, "product_id", items[i].product_id)
              IN /\ d.found
                 /\ items[i].name = GetOr(d.rec, "name", UnknownProductName)
                 /\ items[i].price = ParsePrice(d.rec).n

\* C6 witness: the customer id matches records of both sources and the
\* CSV record was returned
C6_Witness ==
    /\ CustomerLooked
    /\ MatchIdx(customer_csv.recs, "customer_id", Get(invoice_data, "customer_id")) # {}
    /\ MatchIdx(customer_json.recs, "customer_id", Get(invoice_data, "customer_id")) # {}
    /\ customer_data.found
    /\ customer_data.rec \in { customer_csv.recs[i] : i \in 1..Len(customer_csv.recs) }
    /\ PrepareReturned
    /\ \E i \in 1..Len(items) :
         /\ MatchIdx(product_csv.recs, "product_id", items[i].product_id) # {}
         /\ MatchIdx(product_json.recs, "product_id", items[i].product_id) # {}

-----------------------------------------------------------------------------
(* Orchestration *)

\* some record of the data file carries the selected invoice id
InvoicePresent == MatchIdx(data, "invoice_id", selected_invoice_id) # {}

\* the customer of the assembled invoice is in no reference source
CustomerMissing ==
    /\ InvoiceReturned
    /\ ~Designated(customer_csv, customer_json, "customer_id",
                   Get(invoice_data, "customer_id")).found

\* enrichment returned no item
AllDropped == PrepareReturned /\ items = <<>>

\* C7: generate_pdf is called at most once, and only with the invoice
\* found, the customer resolved, a non-empty item list and a composed
\* document; a run whose invoice or customer is not found, or whose items
\* were all dropped, never reaches the render step and writes no file, and
\* when it has ended it has ended with an error report.
C7_RenderLast ==
    /\ render_calls \in {0, 1}
    /\ pdf_written => render_calls = 1
    /\ (render_calls = 1 \/ pc = "generate_pdf") =>
         /\ InvoicePresent
         /\ customer_data.found
         /\ items # <<>>
         /\ ~html_content.raised
         /\ html_content.tables # <<>>
    /\ (~InvoicePresent \/ CustomerMissing \/ AllDropped) =>
         /\ render_calls = 0
         /\ ~pdf_written
         /\ pc \in {"get_invoice_data", "load_customer_data", "error"}
         /\ pc = "error" => report # ""

\* C7 witness: a run that rendered its file after all the data steps
C7_Witness ==
    /\ selected_invoice_id \in get_invoice_ids(data)
    /\ pc = "done"
    /\ pdf_written
    /\ render_calls = 1
    /\ Len(items) < Len(Raw)

-----------------------------------------------------------------------------
(* Assembly *)

\* C8: for a target id that no record matches, get_invoice_data fails and
\* returns no invoice, in the flat shape as in the nested shape.
C8_InvoiceNotFound ==
    (pc # "get_invoice_data" /\ ~InvoicePresent) =>
      /\ pc = "error" /\ report = "invoice data"
      /\ invoice_data = <<>>

\* the positions of the rows of the selected invoice
Matching == MatchIdx(data, "invoice_id", selected_invoice_id)

\* the rows at the positions of S, in order
RECURSIVE RowsAt(_, _)
RowsAt(S, i) ==
    IF i > Len(data) THEN <<>>
    ELSE (IF i \in S THEN <<data[i]>> ELSE <<>>) \o RowsAt(S, i + 1)

\* the value of the field in the first row of S that carries one
FirstValue(S, key) ==
    LET having == { i \in S : Get(data[i], key) # NoneV }
    IN IF having = {} THEN NoneV ELSE data[MinOf(having)][key]

\* C9 as stated: the items of a flat invoice are the matching rows in
\* order, and the header's date and customer_id are those of the first
\* matching row, whether or not that row has a value for them.
C9_FirstRowOnly ==
    (suffix = ".csv" /\ InvoiceReturned) =>
      /\ invoice_data["items"] = RowsAt(Matching, 1)
      /\ Matching # {} =>
           /\ invoice_data["date"] = Get(data[MinOf(Matching)], "date")
           /\ invoice_data["customer_id"] = Get(data[MinOf(Matching)], "customer_id")

\* C9 amended: the items of a flat invoice are the rows whose invoice_id
\* stringifies equal to the target, in order; date and customer_id are each
\* taken from the first matching row that has a value (not None) for that
\* field, and are None if no matching row has one.
C9_FirstValueWins ==
    (suffix = ".csv" /\ InvoiceReturned) =>
      /\ invoice_data["invoice_id"] = selected_invoice_id
      /\ invoice_data["items"] = RowsAt(Matching, 1)
      /\ invoice_data["date"] = FirstValue(Matching, "date")
      /\ invoice_data["customer_id"] = FirstValue(Matching, "customer_id")

\* C9 witness: two rows match, one of them by a str id against an int
\* target; the first has no customer_id and the header took the second's
C9_Witness ==
    /\ suffix = ".csv"
    /\ selected_invoice_id \in get_invoice_ids(data)
    /\ InvoiceReturned
    /\ Cardinality(Matching) = 2
    /\ \E i \in Matching : data[i]["invoice_id"] # selected_invoice_id
    /\ Get(data[MinOf(Matching)], "customer_id") = NoneV
    /\ invoice_data["customer_id"] # NoneV

\* C10: prepare_invoice_items never raises because of a quantity, an absent
\* or malformed quantity counts as 1, and every enriched item has a
\* quantity of at least 1.
C10_QuantityDefault ==
    PrepareCalled =>
      /\ pc # "crash"
      /\ \A i \in 1..Len(items) : items[i].quantity >= 1
      /\ Len(items) = Len(Resolving)
      /\ \A i \in 1..Len(items) :
           ("quantity" \notin DOMAIN Resolving[i] \/ ParseQuantity(Resolving[i]).raised)
              => items[i].quantity = 1

-----------------------------------------------------------------------------
(* Composition *)

\* the eight placeholders
PlaceholderNames ==
    <<"invoice_id", "invoice_date", "customer_name", "customer_email",
      "customer_phone", "customer_address", "tables", "total_amount">>

\* the values of the eight placeholders of the composed document, in the
\* order of PlaceholderNames
Values ==
    LET subs == Substitutions(invoice_data, customer_data.rec, items)
    IN [k \in 1..Len(PlaceholderNames) |-> subs[k][2]]

\* the placeholders of the eight that start at position i of the text
StartsAt(text, i) ==
    { k \in 1..Len(PlaceholderNames) :
        i + 2 <= Len(text) /\ SubSeq(text, i, i + 2) = Token(PlaceholderNames[k]) }

\* one pass over the text: a full placeholder of the eight is replaced by
\* its value, any other atom is copied, and nothing is read twice
RECURSIVE SinglePassFrom(_, _, _)
SinglePassFrom(text, i, values) ==
    IF i > Len(text) THEN <<>>
    ELSE IF StartsAt(text, i) # {}
    THEN values[CHOOSE k \in StartsAt(text, i) : TRUE] \o SinglePassFrom(text, i + 3, values)
    ELSE <<text[i]>> \o SinglePassFrom(text, i + 1, values)

SinglePass(text) == LET values == Values IN SinglePassFrom(text, 1, values)

\* C11: the composed document is the template with each full occurrence of
\* one of the eight placeholders replaced by its value in a single pass:
\* every other atom is untouched, and a placeholder that a substituted
\* value brings in is not expanded.
C11_SinglePass ==
    Composed => html_content.html = SinglePass(html_template)

\* what holds of the code for C11: with the standard template and values
\* that hold no brace, the replacements done one after the other give the
\* single-pass result
C11_PlainValues ==
    (/\ Composed
     /\ html_template = StandardTemplate
     /\ LET values == Values
        IN \A k \in 1..Len(values) : \A j \in 1..Len(values[k]) :
              values[k][j] \notin {"{{", "}}"})
      => html_content.html = SinglePass(html_template)

\* generate_html was called
HtmlCalled == Composed \/ (pc = "error" /\ report = "html")

\* the repeated headers of the document
Headers == SelectSeq(html_content.tables, LAMBDA b : b.kind = "header-repeat")

\* the customer field is missing: no key, or a key with the value None
Missing(field) == Get(customer_data.rec, field) = NoneV

\* C12: whenever generate_html is called with a customer record whose
\* fields name, email, phone and address are strs or missing (no key, or
\* None), it does not fail, and each missing field is the empty string in
\* its placeholder's value and in every repeated header, never "None".
C12_MissingFieldsEmpty ==
    (/\ HtmlCalled
     /\ \A i \in 1..Len(CustomerFields) :
          Missing(CustomerFields[i]) \/ Get(customer_data.rec, CustomerFields[i]).tag = "str")
      =>
      /\ ~(pc = "error" /\ report = "html")
      /\ \A i \in 1..Len(CustomerFields) :
           Missing(CustomerFields[i]) =>
             /\ html_content.fields[2 + i] = ""
             /\ \A h \in 1..Len(Headers) : Headers[h].customer[i] = ""

\* what holds of the code for C12: a field whose key is absent is the
\* empty string in both places
C12_AbsentKeys ==
    Composed =>
      \A i \in 1..Len(CustomerFields) :
        CustomerFields[i] \notin DOMAIN customer_data.rec =>
          /\ html_content.fields[2 + i] = ""
          /\ \A h \in 1..Len(Headers) : Headers[h].customer[i] = ""

=============================================================================
